---------------------------- MODULE Spec2Model ----------------------------
(***************************************************************************)
(* Duplicate-feature checker: the three edge functions search-similar,     *)
(* process-csv and update-intent-text over the table function_records.     *)
(*                                                                         *)
(* A string is the sequence of its UTF-16 code units (all characters of    *)
(* the lexicons are in the basic plane), so that length, substring,        *)
(* character ranges of the regular expressions and toLowerCase are the     *)
(* ones of the source.  A JavaScript number is a binary floating-point     *)
(* value with a mantissa of Precision bits, every operation rounded to     *)
(* nearest-even as IEEE-754 does.                                          *)
(***************************************************************************)
EXTENDS Integers, Sequences, FiniteSets

VARIABLES
    db,        \* function_records, in ascending id order
    response,  \* the response of the last request served
    call       \* the last call of a normalizer on its own: arguments and result

vars == <<db, response, call>>

---------------------------------------------------------------------------
(* Strings                                                                 *)

\* null / undefined where a string is expected (no code unit is negative)
NULL == <<-1>>

\* JavaScript truthiness of a string-or-null value
Truthy(s) == s # NULL /\ s # <<>>

\* \s of a JavaScript regular expression
Whitespace ==
    {9, 10, 11, 12, 13, 32, 160, 5760, 8232, 8233, 8239, 8287, 12288, 65279}
        \cup (8192..8202)

\* the characters "." does not match
LineTerminators == {10, 13, 8232, 8233}

IsAlnum(c) == (c >= 48 /\ c <= 57) \/ (c >= 65 /\ c <= 90) \/ (c >= 97 /\ c <= 122)

\* \w
IsWordChar(c) == IsAlnum(c) \/ c = 95

\* [一-龥]
IsCJK(c) == c >= 19968 /\ c <= 40869

SPACE == <<32>>

\* String.prototype.includes
Includes(text, s) ==
    \E i \in 1..(Len(text) - Len(s) + 1) : SubSeq(text, i, i + Len(s) - 1) = s

\* Array.prototype.includes
Contains(seq, x) == \E i \in 1..Len(seq) : seq[i] = x

\* String.prototype.indexOf, 1-based; 0 when absent
IndexOf(text, s) ==
    IF Includes(text, s)
    THEN CHOOSE i \in 1..(Len(text) - Len(s) + 1) :
            /\ SubSeq(text, i, i + Len(s) - 1) = s
            /\ \A j \in 1..(i - 1) : SubSeq(text, j, j + Len(s) - 1) # s
    ELSE 0

\* the array of the values f[1], ..., f[n]
Array(f, n) == SubSeq(f, 1, n)

\* String.prototype.toLowerCase on the code units of the model's alphabet
ToLowerCase(text) ==
    LET Lower(c) == IF c >= 65 /\ c <= 90 THEN c + 32 ELSE c
    IN Array([i \in 1..Len(text) |-> Lower(text[i])], Len(text))

\* first index >= i that holds no whitespace, Len(text) + 1 when there is none
RECURSIVE SkipWhitespace(_, _)
SkipWhitespace(text, i) ==
    IF i > Len(text) \/ text[i] \notin Whitespace THEN i
    ELSE SkipWhitespace(text, i + 1)

RECURSIVE SplitFrom(_, _, _, _)
SplitFrom(text, i, cur, acc) ==
    IF i > Len(text) THEN Append(acc, cur)
    ELSE IF text[i] \in Whitespace
         THEN SplitFrom(text, SkipWhitespace(text, i), <<>>, Append(acc, cur))
         ELSE SplitFrom(text, i + 1, Append(cur, text[i]), acc)

\* text.split(/\s+/)
SplitWhitespace(text) == SplitFrom(text, 1, <<>>, <<>>)

RECURSIVE Join(_, _)
\* Array.prototype.join
Join(words, sep) ==
    IF Len(words) = 0 THEN <<>>
    ELSE IF Len(words) = 1 THEN words[1]
    ELSE words[1] \o sep \o Join(Tail(words), sep)

RECURSIVE TrimStart(_)
TrimStart(text) ==
    IF Len(text) > 0 /\ text[1] \in Whitespace THEN TrimStart(Tail(text)) ELSE text

RECURSIVE TrimEnd(_)
TrimEnd(text) ==
    IF Len(text) > 0 /\ text[Len(text)] \in Whitespace
    THEN TrimEnd(SubSeq(text, 1, Len(text) - 1)) ELSE text

\* String.prototype.trim
Trim(text) == TrimEnd(TrimStart(text))

\* [...new Set(seq)]: the first occurrence of each element, in order
RECURSIVE Dedupe(_)
Dedupe(seq) ==
    IF Len(seq) = 0 THEN <<>>
    ELSE LET init == Dedupe(SubSeq(seq, 1, Len(seq) - 1))
         IN IF Contains(init, seq[Len(seq)]) THEN init ELSE Append(init, seq[Len(seq)])

\* the elements of a sequence
Range(seq) == {seq[i] : i \in 1..Len(seq)}

---------------------------------------------------------------------------
(* Lexicon of search-similar                                               *)

\* the known applications, in declaration order
APP_NAMES ==
    << <<20840, 27665, 75, 27468>>,  \* 全民K歌
       <<25238, 38899>>,  \* 抖音
       <<24494, 20449>>,  \* 微信
       <<25903, 20184, 23453>>,  \* 支付宝
       <<28120, 23453>>,  \* 淘宝
       <<20140, 19996>>,  \* 京东
       <<32654, 22242>>,  \* 美团
       <<39295, 20102, 20040>>,  \* 饿了么
       <<21716, 21737, 21716, 21737>>,  \* 哔哩哔哩
       <<66, 31449>>,  \* B站
       <<24555, 25163>>,  \* 快手
       <<23567, 32418, 20070>>,  \* 小红书
       <<30693, 20046>>,  \* 知乎
       <<30334, 24230>>,  \* 百度
       <<32593, 26131, 20113, 38899, 20048>>,  \* 网易云音乐
       <<81, 81>>,  \* QQ
       <<38025, 38025>>,  \* 钉钉
       <<20225, 19994, 24494, 20449>>,  \* 企业微信
       <<25340, 22810, 22810>>,  \* 拼多多
       <<38386, 40060>>,  \* 闲鱼
       <<39640, 24503, 22320, 22270>>,  \* 高德地图
       <<30334, 24230, 22320, 22270>>,  \* 百度地图
       <<25658, 31243>>,  \* 携程
       <<39134, 29482>>,  \* 飞猪
       <<21435, 21738, 20799>>,  \* 去哪儿
       <<49, 50, 51, 48, 54>>,  \* 12306
       <<28404, 28404>>,  \* 滴滴
       <<33457, 23567, 29482>>,  \* 花小猪
       <<26361, 25805, 20986, 34892>>  \* 曹操出行
    >>

\* surface verb -> canonical action, in declaration order
ACTION_MAP ==
    << <<<<25171, 24320>>, <<25171, 24320>>>>,  \* 打开 -> 打开
       <<<<36827, 20837>>, <<25171, 24320>>>>,  \* 进入 -> 打开
       <<<<21551, 21160>>, <<25171, 24320>>>>,  \* 启动 -> 打开
       <<<<24320, 21551>>, <<25171, 24320>>>>,  \* 开启 -> 打开
       <<<<25628, 32034>>, <<25628, 32034>>>>,  \* 搜索 -> 搜索
       <<<<26597, 25214>>, <<25628, 32034>>>>,  \* 查找 -> 搜索
       <<<<25628, 19968, 19979>>, <<25628, 32034>>>>,  \* 搜一下 -> 搜索
       <<<<25214>>, <<25628, 32034>>>>,  \* 找 -> 搜索
       <<<<25773, 25918>>, <<25773, 25918>>>>,  \* 播放 -> 播放
       <<<<21548>>, <<25773, 25918>>>>,  \* 听 -> 播放
       <<<<35266, 30475>>, <<25773, 25918>>>>,  \* 观看 -> 播放
       <<<<30475>>, <<25773, 25918>>>>,  \* 看 -> 播放
       <<<<28857, 36190>>, <<28857, 36190>>>>,  \* 点赞 -> 点赞
       <<<<36190>>, <<28857, 36190>>>>,  \* 赞 -> 点赞
       <<<<21916, 27426>>, <<28857, 36190>>>>,  \* 喜欢 -> 点赞
       <<<<35780, 35770>>, <<35780, 35770>>>>,  \* 评论 -> 评论
       <<<<30041, 35328>>, <<35780, 35770>>>>,  \* 留言 -> 评论
       <<<<20851, 27880>>, <<20851, 27880>>>>,  \* 关注 -> 关注
       <<<<35746, 38405>>, <<20851, 27880>>>>,  \* 订阅 -> 关注
       <<<<20998, 20139>>, <<20998, 20139>>>>,  \* 分享 -> 分享
       <<<<36716, 21457>>, <<20998, 20139>>>>,  \* 转发 -> 分享
       <<<<25910, 34255>>, <<25910, 34255>>>>,  \* 收藏 -> 收藏
       <<<<20445, 23384>>, <<25910, 34255>>>>,  \* 保存 -> 收藏
       <<<<21024, 38500>>, <<21024, 38500>>>>,  \* 删除 -> 删除
       <<<<31227, 38500>>, <<21024, 38500>>>>,  \* 移除 -> 删除
       <<<<28155, 21152>>, <<28155, 21152>>>>,  \* 添加 -> 添加
       <<<<26032, 22686>>, <<28155, 21152>>>>,  \* 新增 -> 添加
       <<<<21019, 24314>>, <<28155, 21152>>>>,  \* 创建 -> 添加
       <<<<32534, 36753>>, <<32534, 36753>>>>,  \* 编辑 -> 编辑
       <<<<20462, 25913>>, <<32534, 36753>>>>,  \* 修改 -> 编辑
       <<<<26597, 30475>>, <<26597, 30475>>>>,  \* 查看 -> 查看
       <<<<27983, 35272>>, <<26597, 30475>>>>,  \* 浏览 -> 查看
       <<<<19979, 36733>>, <<19979, 36733>>>>,  \* 下载 -> 下载
       <<<<19978, 20256>>, <<19978, 20256>>>>,  \* 上传 -> 上传
       <<<<21457, 24067>>, <<19978, 20256>>>>,  \* 发布 -> 上传
       <<<<30331, 24405>>, <<30331, 24405>>>>,  \* 登录 -> 登录
       <<<<36864, 20986>>, <<36864, 20986>>>>  \* 退出 -> 退出
    >>

\* content parameters stripped by the fallback path
CONTENT_KEYWORDS ==
    << <<23665, 26946, 26641, 20043, 24651>>,  \* 山楂树之恋
       <<21608, 26480, 20262>>,  \* 周杰伦
       <<26228, 22825>>,  \* 晴天
       <<19971, 37324, 39321>>,  \* 七里香
       <<24555, 20048>>,  \* 快乐
       <<32654, 39135>>,  \* 美食
       <<26053, 28216>>,  \* 旅游
       <<25630, 31505>>,  \* 搞笑
       <<38899, 20048>>,  \* 音乐
       <<35270, 39057>>,  \* 视频
       <<22270, 29255>>,  \* 图片
       <<25991, 31456>>,  \* 文章
       <<26032, 38395>>  \* 新闻
    >>

\* Object.values(ACTION_MAP)
ActionValues == Array([i \in 1..Len(ACTION_MAP) |-> ACTION_MAP[i][2]], Len(ACTION_MAP))

\* an extraction that knows no application, which the ranking scenario
\* tells from extractAppName
NoAppName(text) == NULL

\* extractAppName: the first declared application the text contains, or null
extractAppName(text) ==
    IF \E i \in 1..Len(APP_NAMES) : Includes(text, APP_NAMES[i])
    THEN APP_NAMES[CHOOSE i \in 1..Len(APP_NAMES) :
            /\ Includes(text, APP_NAMES[i])
            /\ \A j \in 1..(i - 1) : ~Includes(text, APP_NAMES[j])]
    ELSE NULL

RECURSIVE ExtractActionsFrom(_, _, _)
ExtractActionsFrom(text, k, actions) ==
    IF k > Len(ACTION_MAP) THEN actions
    ELSE IF Includes(text, ACTION_MAP[k][1]) /\ ~Contains(actions, ACTION_MAP[k][2])
         THEN ExtractActionsFrom(text, k + 1, Append(actions, ACTION_MAP[k][2]))
         ELSE ExtractActionsFrom(text, k + 1, actions)

\* extractActions: the canonical action of every table key the text contains
extractActions(text) == ExtractActionsFrom(text, 1, <<>>)

\* text.replace(s, rep) with a string pattern: the first occurrence only
ReplaceFirst(text, s, rep) ==
    LET i == IndexOf(text, s)
    IN IF i = 0 THEN text
       ELSE SubSeq(text, 1, i - 1) \o rep \o SubSeq(text, i + Len(s), Len(text))

\* 《 「 『 " '
OpenQuotes == {12298, 12300, 12302, 34, 39}

\* 》 」 』 " '
CloseQuotes == {12299, 12301, 12303, 34, 39}

\* the end of the match of /[《「『"'](.*?)[》」』"']/ that starts at i: the first
\* closing character after i, with no line terminator in between; 0 without
CloseAfter(text, i) ==
    IF \E j \in (i + 1)..Len(text) : text[j] \in CloseQuotes
    THEN LET j == CHOOSE j \in (i + 1)..Len(text) :
                    /\ text[j] \in CloseQuotes
                    /\ \A k \in (i + 1)..(j - 1) : text[k] \notin CloseQuotes
         IN IF \A k \in (i + 1)..(j - 1) : text[k] \notin LineTerminators THEN j ELSE 0
    ELSE 0

RECURSIVE ReplaceDelimitedFrom(_, _, _)
ReplaceDelimitedFrom(text, i, rep) ==
    IF i > Len(text) THEN <<>>
    ELSE IF text[i] \in OpenQuotes /\ CloseAfter(text, i) # 0
         THEN rep \o ReplaceDelimitedFrom(text, CloseAfter(text, i) + 1, rep)
         ELSE <<text[i]>> \o ReplaceDelimitedFrom(text, i + 1, rep)

\* text.replace(/[《「『"'](.*?)[》」』"']/g, rep)
ReplaceDelimited(text, rep) == ReplaceDelimitedFrom(text, 1, rep)

RECURSIVE RemoveKeywordsFrom(_, _)
RemoveKeywordsFrom(text, k) ==
    IF k > Len(CONTENT_KEYWORDS) THEN text
    ELSE RemoveKeywordsFrom(ReplaceFirst(text, CONTENT_KEYWORDS[k], <<>>), k + 1)

\* the filter of removeContentParams
KeepWord(word) ==
    IF Contains(ActionValues, word) THEN TRUE
    ELSE IF Contains(APP_NAMES, word) THEN TRUE
    ELSE IF Len(word) >= 3 /\ Len(word) <= 8 /\ \A i \in 1..Len(word) : IsCJK(word[i])
         THEN ~Contains(CONTENT_KEYWORDS, word)
         ELSE TRUE

\* removeContentParams
removeContentParams(text) ==
    LET cleaned == ReplaceDelimited(RemoveKeywordsFrom(text, 1), <<>>)
        words == SplitWhitespace(cleaned)
    IN Join(SelectSeq(words, KeepWord), SPACE)

\* text.substring(0, n)
Substring0(text, n) == SubSeq(text, 1, IF Len(text) < n THEN Len(text) ELSE n)

\* the prefix kept by the fallback of normalizeIntent (search-similar)
FallbackLength == 20

\* normalizeIntent of search-similar ("query normalize")
normalizeIntent(text) ==
    IF ~Truthy(text) THEN <<>>
    ELSE LET appName == extractAppName(text)
             parts == (IF Truthy(appName) THEN <<appName>> ELSE <<>>) \o extractActions(text)
         IN IF Len(parts) = 0
            THEN Trim(Substring0(removeContentParams(text), FallbackLength))
            ELSE Trim(Join(parts, SPACE))

\* surface verb -> canonical action of process-csv and update-intent-text
\* (the two copies of the table are identical), in declaration order
ACTION_NORMALIZATION ==
    << <<<<25171, 24320>>, <<25171, 24320>>>>,  \* 打开 -> 打开
       <<<<36827, 20837>>, <<25171, 24320>>>>,  \* 进入 -> 打开
       <<<<21551, 21160>>, <<25171, 24320>>>>,  \* 启动 -> 打开
       <<<<24320, 21551>>, <<25171, 24320>>>>,  \* 开启 -> 打开
       <<<<35775, 38382>>, <<25171, 24320>>>>,  \* 访问 -> 打开
       <<<<25628, 32034>>, <<25628, 32034>>>>,  \* 搜索 -> 搜索
       <<<<26597, 25214>>, <<25628, 32034>>>>,  \* 查找 -> 搜索
       <<<<25628, 19968, 19979>>, <<25628, 32034>>>>,  \* 搜一下 -> 搜索
       <<<<25214>>, <<25628, 32034>>>>,  \* 找 -> 搜索
       <<<<26816, 32034>>, <<25628, 32034>>>>,  \* 检索 -> 搜索
       <<<<25773, 25918>>, <<25773, 25918>>>>,  \* 播放 -> 播放
       <<<<21548>>, <<25773, 25918>>>>,  \* 听 -> 播放
       <<<<21548, 19968, 19979>>, <<25773, 25918>>>>,  \* 听一下 -> 播放
       <<<<25918>>, <<25773, 25918>>>>,  \* 放 -> 播放
       <<<<35266, 30475>>, <<25773, 25918>>>>,  \* 观看 -> 播放
       <<<<30475>>, <<25773, 25918>>>>,  \* 看 -> 播放
       <<<<28857, 36190>>, <<28857, 36190>>>>,  \* 点赞 -> 点赞
       <<<<36190>>, <<28857, 36190>>>>,  \* 赞 -> 点赞
       <<<<21916, 27426>>, <<28857, 36190>>>>,  \* 喜欢 -> 点赞
       <<<<35780, 35770>>, <<35780, 35770>>>>,  \* 评论 -> 评论
       <<<<30041, 35328>>, <<35780, 35770>>>>,  \* 留言 -> 评论
       <<<<21457, 34920, 35780, 35770>>, <<35780, 35770>>>>,  \* 发表评论 -> 评论
       <<<<20851, 27880>>, <<20851, 27880>>>>,  \* 关注 -> 关注
       <<<<35746, 38405>>, <<20851, 27880>>>>,  \* 订阅 -> 关注
       <<<<21152, 20851, 27880>>, <<20851, 27880>>>>,  \* 加关注 -> 关注
       <<<<20998, 20139>>, <<20998, 20139>>>>,  \* 分享 -> 分享
       <<<<36716, 21457>>, <<20998, 20139>>>>,  \* 转发 -> 分享
       <<<<25910, 34255>>, <<25910, 34255>>>>,  \* 收藏 -> 收藏
       <<<<20445, 23384>>, <<25910, 34255>>>>,  \* 保存 -> 收藏
       <<<<21024, 38500>>, <<21024, 38500>>>>,  \* 删除 -> 删除
       <<<<31227, 38500>>, <<21024, 38500>>>>,  \* 移除 -> 删除
       <<<<28155, 21152>>, <<28155, 21152>>>>,  \* 添加 -> 添加
       <<<<26032, 22686>>, <<28155, 21152>>>>,  \* 新增 -> 添加
       <<<<21019, 24314>>, <<28155, 21152>>>>,  \* 创建 -> 添加
       <<<<32534, 36753>>, <<32534, 36753>>>>,  \* 编辑 -> 编辑
       <<<<20462, 25913>>, <<32534, 36753>>>>,  \* 修改 -> 编辑
       <<<<26356, 25913>>, <<32534, 36753>>>>,  \* 更改 -> 编辑
       <<<<26597, 30475>>, <<26597, 30475>>>>,  \* 查看 -> 查看
       <<<<27983, 35272>>, <<26597, 30475>>>>,  \* 浏览 -> 查看
       <<<<26597, 35810>>, <<26597, 30475>>>>,  \* 查询 -> 查看
       <<<<19979, 36733>>, <<19979, 36733>>>>,  \* 下载 -> 下载
       <<<<20445, 23384, 21040, 26412, 22320>>, <<19979, 36733>>>>,  \* 保存到本地 -> 下载
       <<<<19978, 20256>>, <<19978, 20256>>>>,  \* 上传 -> 上传
       <<<<21457, 24067>>, <<19978, 20256>>>>,  \* 发布 -> 上传
       <<<<30331, 24405>>, <<30331, 24405>>>>,  \* 登录 -> 登录
       <<<<30331, 38470>>, <<30331, 24405>>>>,  \* 登陆 -> 登录
       <<<<30331, 20837>>, <<30331, 24405>>>>,  \* 登入 -> 登录
       <<<<36864, 20986>>, <<36864, 20986>>>>,  \* 退出 -> 退出
       <<<<30331, 20986>>, <<36864, 20986>>>>,  \* 登出 -> 退出
       <<<<36864, 20986, 30331, 24405>>, <<36864, 20986>>>>,  \* 退出登录 -> 退出
       <<<<21462, 28040>>, <<21462, 28040>>>>,  \* 取消 -> 取消
       <<<<25764, 38144>>, <<21462, 28040>>>>  \* 撤销 -> 取消
    >>

---------------------------------------------------------------------------
(* Structural normalize: process-csv and update-intent-text                *)

\* the replacement of SLOT_PATTERNS: <QUERY>
PLACEHOLDER == <<60, 81, 85, 69, 82, 89, 62>>

\* (?<!打开|搜索|播放|查看)
ReservedWords == {<<25171, 24320>>, <<25628, 32034>>, <<25773, 25918>>, <<26597, 30475>>}

\* (?!的|了|是|在|有)
Particles == {30340, 20102, 26159, 22312, 26377}

\* /^[的了是在有个这那]/
Fillers == {30340, 20102, 26159, 22312, 26377, 20010, 36825, 37027}

\* the lookbehind of the second slot pattern, for a match starting at i
NotAfterReserved(text, i) == ~(i >= 3 /\ SubSeq(text, i - 2, i - 1) \in ReservedWords)

\* the lookahead of the second slot pattern, for a match ending before p
NotBeforeParticle(text, p) == p > Len(text) \/ text[p] \notin Particles

\* the length of the run of [a-zA-Z0-9] that starts at i
AlnumRun(text, i) ==
    CHOOSE n \in 0..(Len(text) - i + 1) :
        /\ \A k \in i..(i + n - 1) : IsAlnum(text[k])
        /\ (i + n > Len(text) \/ ~IsAlnum(text[i + n]))

\* the length of the run of [一-龥] that starts at i
CJKRun(text, i) ==
    CHOOSE n \in 0..(Len(text) - i + 1) :
        /\ \A k \in i..(i + n - 1) : IsCJK(text[k])
        /\ (i + n > Len(text) \/ ~IsCJK(text[i + n]))

\* {2,} and {3,10} of the second slot pattern
MinAlnumRun == 2
MinCJKRun == 3
MaxCJKRun == 10

\* the length of the match of
\*   /(?<!打开|搜索|播放|查看)([a-zA-Z0-9]{2,}|[一-龥]{3,10})(?!的|了|是|在|有)/
\* at i, 0 when it does not match there: each alternative is greedy and gives
\* characters back until the lookahead holds
SlotMatchLength(text, i) ==
    LET a == AlnumRun(text, i)
        c == CJKRun(text, i)
        top == IF c < MaxCJKRun THEN c ELSE MaxCJKRun
        fits == {n \in MinCJKRun..top : NotBeforeParticle(text, i + n)}
    IN IF ~NotAfterReserved(text, i) THEN 0
       ELSE IF a >= MinAlnumRun /\ NotBeforeParticle(text, i + a) THEN a
       ELSE IF a - 1 >= MinAlnumRun THEN a - 1
       ELSE IF fits # {} THEN CHOOSE n \in fits : \A m \in fits : m <= n
       ELSE 0

RECURSIVE ReplaceSlotsFrom(_, _)
ReplaceSlotsFrom(text, i) ==
    IF i > Len(text) THEN <<>>
    ELSE LET n == SlotMatchLength(text, i)
         IN IF n > 0 THEN PLACEHOLDER \o ReplaceSlotsFrom(text, i + n)
            ELSE <<text[i]>> \o ReplaceSlotsFrom(text, i + 1)

\* the loop over SLOT_PATTERNS: the delimited spans, then the long runs
RedactSlots(text) == ReplaceSlotsFrom(ReplaceDelimited(text, PLACEHOLDER), 1)

\* the first table key the word contains, 0 when it contains none
FirstKey(word) ==
    IF \E k \in 1..Len(ACTION_NORMALIZATION) : Includes(word, ACTION_NORMALIZATION[k][1])
    THEN CHOOSE k \in 1..Len(ACTION_NORMALIZATION) :
            /\ Includes(word, ACTION_NORMALIZATION[k][1])
            /\ \A j \in 1..(k - 1) : ~Includes(word, ACTION_NORMALIZATION[j][1])
    ELSE 0

\* the shortest residual token kept
MinResidualLength == 2

RECURSIVE NormalizeWords(_, _, _)
\* the loop "for (const word of words)" of normalizeIntent
NormalizeWords(words, i, normalizedWords) ==
    IF i > Len(words) THEN normalizedWords
    ELSE LET word == words[i]
             k == FirstKey(word)
         IN IF word = PLACEHOLDER THEN NormalizeWords(words, i + 1, normalizedWords)
            ELSE IF k # 0
                 THEN NormalizeWords(words, i + 1,
                        IF Contains(normalizedWords, ACTION_NORMALIZATION[k][2])
                        THEN normalizedWords
                        ELSE Append(normalizedWords, ACTION_NORMALIZATION[k][2]))
            ELSE IF Len(word) >= MinResidualLength /\ word[1] \notin Fillers
                 THEN NormalizeWords(words, i + 1, Append(normalizedWords, word))
            ELSE NormalizeWords(words, i + 1, normalizedWords)

\* normalizeIntent of process-csv ("structural normalize")
normalizeIntentCSV(text) ==
    Trim(Join(Dedupe(NormalizeWords(SplitWhitespace(RedactSlots(text)), 1, <<>>)), SPACE))

\* normalizeIntent of update-intent-text: the same, behind "if (!text) return ''"
normalizeIntentBackfill(text) ==
    IF ~Truthy(text) THEN <<>> ELSE normalizeIntentCSV(text)

RECURSIVE NormalizedQueries(_)
\* the loop over queries of extractIntent
NormalizedQueries(queries) ==
    IF Len(queries) = 0 THEN <<>>
    ELSE LET normalized == normalizeIntentCSV(queries[1])
         IN (IF Truthy(normalized) THEN <<normalized>> ELSE <<>>)
                \o NormalizedQueries(Tail(queries))

\* the labels that are set, in hierarchy order
Labels(level1, functionPoint, subFunction) ==
    (IF Truthy(level1) THEN <<level1>> ELSE <<>>)
        \o (IF Truthy(functionPoint) THEN <<functionPoint>> ELSE <<>>)
        \o (IF Truthy(subFunction) THEN <<subFunction>> ELSE <<>>)

\* extractIntent
extractIntent(level1, functionPoint, subFunction, queries) ==
    normalizeIntentCSV(
        Join(Labels(level1, functionPoint, subFunction) \o NormalizedQueries(queries), SPACE))

\* the record processCSVData builds from one row (after the forward fill), a
\* sequence of no or one record
RecordOfRow(row, filename) ==
    LET searchText == Join(Labels(row.level_1, row.function_point, row.sub_function)
                                \o row.queries, SPACE)
        intentText == extractIntent(row.level_1, row.function_point, row.sub_function,
                                     row.queries)
    IN IF ~Truthy(row.level_1) /\ ~Truthy(row.function_point)
            /\ ~Truthy(row.sub_function) /\ Len(row.queries) = 0
       THEN <<>>
       ELSE IF Truthy(Trim(searchText))
            THEN << [source_file |-> filename,
                     level_1 |-> IF Truthy(row.level_1) THEN row.level_1 ELSE NULL,
                     function_point |-> IF Truthy(row.function_point)
                                        THEN row.function_point ELSE NULL,
                     sub_function |-> IF Truthy(row.sub_function)
                                      THEN row.sub_function ELSE NULL,
                     search_text |-> searchText,
                     intent_text |-> IF Truthy(intentText) THEN intentText ELSE searchText] >>
            ELSE <<>>

RECURSIVE processCSVData(_, _)
\* processCSVData over the rows of a file
processCSVData(rows, filename) ==
    IF Len(rows) = 0 THEN <<>>
    ELSE RecordOfRow(rows[1], filename) \o processCSVData(Tail(rows), filename)

---------------------------------------------------------------------------
(* Numbers: binary floating point, round to nearest, ties to even          *)

\* the bits of a mantissa (53 in the source's doubles)
Precision == 12

Pow2[n \in 0..30] == IF n = 0 THEN 1 ELSE 2 * Pow2[n - 1]

RECURSIVE BitsBetween(_, _, _)
\* the b in lo..hi with 2^(b-1) <= n < 2^b
BitsBetween(n, lo, hi) ==
    IF lo = hi THEN lo
    ELSE LET mid == (lo + hi) \div 2
         IN IF n < Pow2[mid] THEN BitsBetween(n, lo, mid) ELSE BitsBetween(n, mid + 1, hi)

\* the number of bits of n > 0
BitLength(n) == BitsBetween(n, 1, 31)

\* a number is m * 2^e with 2^(Precision-1) <= m < 2^Precision, or zero
ZERO == [m |-> 0, e |-> 0]

\* n * 2^e, n of b bits (plus a non-zero remainder below the last bit of n
\* when sticky), rounded to Precision bits
RoundBits(n, b, e, sticky) ==
    IF b <= Precision
    THEN [m |-> n * Pow2[Precision - b], e |-> e - (Precision - b)]
    ELSE LET s == b - Precision
             q == n \div Pow2[s]
             r == n % Pow2[s]
             half == Pow2[s - 1]
             up == r > half \/ (r = half /\ (sticky \/ q % 2 = 1))
             q1 == IF up THEN q + 1 ELSE q
         IN IF q1 = Pow2[Precision]
            THEN [m |-> Pow2[Precision - 1], e |-> e + s + 1]
            ELSE [m |-> q1, e |-> e + s]

Round(n, e, sticky) == IF n = 0 THEN ZERO ELSE RoundBits(n, BitLength(n), e, sticky)

\* an integer as a number
FromInt(n) == Round(n, 0, FALSE)

\* a * b
FMul(a, b) ==
    IF a.m = 0 \/ b.m = 0 THEN ZERO
    ELSE LET n == a.m * b.m
         IN RoundBits(n, IF n < Pow2[2 * Precision - 1] THEN 2 * Precision - 1
                         ELSE 2 * Precision, a.e + b.e, FALSE)

\* a / b, b non-zero
FDiv(a, b) ==
    IF a.m = 0 THEN ZERO
    ELSE LET n == a.m * Pow2[Precision + 2]
             q == n \div b.m
         IN RoundBits(q, IF q < Pow2[Precision + 2] THEN Precision + 2 ELSE Precision + 3,
                      a.e - b.e - (Precision + 2), n % b.m # 0)

\* a + b
FAdd(a, b) ==
    IF a.m = 0 THEN b
    ELSE IF b.m = 0 THEN a
    ELSE LET hi == IF a.e >= b.e THEN a ELSE b
             lo == IF a.e >= b.e THEN b ELSE a
             d == hi.e - lo.e
             n == hi.m * Pow2[d] + lo.m
         IN IF d > Precision + 2 THEN hi
            ELSE RoundBits(n, IF n < Pow2[Precision + d] THEN Precision + d
                              ELSE Precision + d + 1, lo.e, FALSE)

\* Math.abs(a - b)
FAbsDiff(a, b) ==
    IF a.m = 0 THEN b
    ELSE IF b.m = 0 THEN a
    ELSE LET hi == IF a.e >= b.e THEN a ELSE b
             lo == IF a.e >= b.e THEN b ELSE a
             d == hi.e - lo.e
             x == hi.m * Pow2[d] - lo.m
         IN IF d > Precision + 2 THEN hi
            ELSE Round(IF x < 0 THEN -x ELSE x, lo.e, FALSE)

\* a < b
FLess(a, b) ==
    IF a.m = 0 THEN b.m # 0
    ELSE IF b.m = 0 THEN FALSE
    ELSE a.e < b.e \/ (a.e = b.e /\ a.m < b.m)

\* a >= b
FGeq(a, b) == ~FLess(a, b)

\* the sign of a - b
FSign(a, b) == IF FLess(a, b) THEN -1 ELSE IF FLess(b, a) THEN 1 ELSE 0

RECURSIVE ISqrtFrom(_, _)
\* the integer square root of n by Newton's iteration from x >= sqrt(n)
ISqrtFrom(n, x) ==
    LET y == (x + n \div x) \div 2
    IN IF y >= x THEN x ELSE ISqrtFrom(n, y)

\* Math.sqrt
FSqrt(a) ==
    IF a.m = 0 THEN ZERO
    ELSE LET m == IF a.e % 2 = 0 THEN a.m ELSE 2 * a.m
             e == IF a.e % 2 = 0 THEN a.e ELSE a.e - 1
             k == 2 * ((Precision + 4) \div 2)
             n == m * Pow2[k]
             r == ISqrtFrom(n, Pow2[(Precision + k + 2) \div 2])
         IN Round(r, (e - k) \div 2, r * r # n)

\* ln(n) * 2^24 for n = 1, 2, ...
LnTable ==
    << 0, 11629080, 18431656, 23258160, 27001887, 30060736, 32646955, 34887240,
       36863311, 38630967, 40230007, 41689816, 43032709, 44276035, 45433543, 46516320 >>

\* a smoothed weight ln((docCount + 1) / count), positive for every term, which
\* the single-record property tells from MathLog
SmoothedLog(docCount, count) ==
    Round(LnTable[docCount + 1] - LnTable[count], -24, TRUE)

\* Math.log(docCount / count) for two positive integers
MathLog(docCount, count) ==
    IF docCount = count THEN ZERO
    ELSE Round(LnTable[docCount] - LnTable[count], -24, TRUE)

\* a decimal literal num/den
Decimal(num, den) == FDiv(FromInt(num), FromInt(den))

ONE == FromInt(1)

---------------------------------------------------------------------------
(* Similarity scoring of search-similar                                    *)

\* the factor applied when the two applications differ
AppMismatchFactor == Decimal(3, 10)

\* a similarity that takes an empty skeleton to match every record, which the
\* empty-intent property tells from computeIntentSimilarity
EmptyMatchesAll(query, record) == IF Truthy(query) THEN ZERO ELSE ONE

\* computeIntentSimilarity
computeIntentSimilarity(query, record) ==
    IF ~Truthy(query) \/ ~Truthy(record) THEN ZERO
    ELSE LET NonEmpty(w) == Len(w) > 0
             queryWords == SelectSeq(SplitWhitespace(ToLowerCase(query)), NonEmpty)
             recordWords == SelectSeq(SplitWhitespace(ToLowerCase(record)), NonEmpty)
             querySet == Range(queryWords)
             recordSet == Range(recordWords)
             queryApp == extractAppName(query)
             recordApp == extractAppName(record)
             appMatch == ~(Truthy(queryApp) /\ Truthy(recordApp) /\ queryApp # recordApp)
             intersection == querySet \cap recordSet
             union == querySet \cup recordSet
             similarity == FDiv(FromInt(Cardinality(intersection)), FromInt(Cardinality(union)))
         IN IF Len(queryWords) = 0 \/ Len(recordWords) = 0 THEN ZERO
            ELSE IF ~appMatch THEN FMul(similarity, AppMismatchFactor)
            ELSE similarity

\* the replace of preprocessText: what is not [\w\s一-龥] becomes a space
Sanitize(text) ==
    LET Keep(c) == IF IsWordChar(c) \/ c \in Whitespace \/ IsCJK(c) THEN c ELSE 32
    IN Array([i \in 1..Len(text) |-> Keep(text[i])], Len(text))

\* preprocessText
preprocessText(text) ==
    IF ~Truthy(text) THEN <<>>
    ELSE LET NonEmpty(w) == Len(w) > 0
         IN SelectSeq(SplitWhitespace(Sanitize(ToLowerCase(text))), NonEmpty)

\* a Map is the sequence of its <<key, value>> entries in insertion order
Keys(map) == Array([i \in 1..Len(map) |-> map[i][1]], Len(map))

Has(map, key) == \E i \in 1..Len(map) : map[i][1] = key

\* Map.prototype.get(key) || 0
GetOrZero(map, key) ==
    IF Has(map, key) THEN map[CHOOSE i \in 1..Len(map) : map[i][1] = key][2] ELSE ZERO

\* the occurrences of word in words
Count(words, word) == Cardinality({i \in 1..Len(words) : words[i] = word})

\* computeTermFrequency
computeTermFrequency(words) ==
    LET Entry(word) == <<word, FDiv(FromInt(Count(words, word)), FromInt(Len(words)))>>
        unique == Dedupe(words)
    IN Array([i \in 1..Len(unique) |-> Entry(unique[i])], Len(unique))

RECURSIVE Concat(_)
\* the concatenation of a sequence of sequences
Concat(seqs) == IF Len(seqs) = 0 THEN <<>> ELSE seqs[1] \o Concat(Tail(seqs))

\* computeIDF
computeIDF(documents) ==
    LET docCount == Len(documents)
        wordDocCount(w) == Cardinality({d \in 1..Len(documents) : Contains(documents[d], w)})
        Entry(word) == <<word, MathLog(docCount, wordDocCount(word))>>
        unique == Dedupe(Concat(documents))
    IN Array([i \in 1..Len(unique) |-> Entry(unique[i])], Len(unique))

\* computeTFIDF
computeTFIDF(tf, idf) ==
    LET Entry(entry) == <<entry[1], FMul(entry[2], GetOrZero(idf, entry[1]))>>
    IN Array([i \in 1..Len(tf) |-> Entry(tf[i])], Len(tf))

RECURSIVE CosineSums(_, _, _, _, _)
\* the loop of cosineSimilarity: <<dotProduct, norm1, norm2>>
CosineSums(allWords, i, vec1, vec2, sums) ==
    IF i > Len(allWords) THEN sums
    ELSE LET v1 == GetOrZero(vec1, allWords[i])
             v2 == GetOrZero(vec2, allWords[i])
         IN CosineSums(allWords, i + 1, vec1, vec2,
                       << FAdd(sums[1], FMul(v1, v2)),
                          FAdd(sums[2], FMul(v1, v1)),
                          FAdd(sums[3], FMul(v2, v2)) >>)

\* cosineSimilarity
cosineSimilarity(vec1, vec2) ==
    LET allWords == Dedupe(Keys(vec1) \o Keys(vec2))
        sums == CosineSums(allWords, 1, vec1, vec2, <<ZERO, ZERO, ZERO>>)
    IN IF sums[2].m = 0 \/ sums[3].m = 0 THEN ZERO
       ELSE FDiv(sums[1], FMul(FSqrt(sums[2]), FSqrt(sums[3])))

---------------------------------------------------------------------------
(* Classification and ranking of search-similar                            *)

\* the thresholds of isDuplicate and the tolerance of the comparator
IntentThreshold == Decimal(7, 10)
TextThreshold == Decimal(3, 10)
IntentTolerance == Decimal(1, 100)

\* a classifier that is content with either test, which the classification
\* property tells from isDuplicate
isDuplicateEither(intentSimilarity, textSimilarity) ==
    FGeq(intentSimilarity, IntentThreshold) \/ FGeq(textSimilarity, TextThreshold)

\* const isDuplicate = intentSimilarity >= 0.7 && textSimilarity >= 0.3
isDuplicate(intentSimilarity, textSimilarity) ==
    FGeq(intentSimilarity, IntentThreshold) /\ FGeq(textSimilarity, TextThreshold)

\* the comparator of results.sort, by the sign of what it returns
compare(a, b) ==
    IF a.is_duplicate # b.is_duplicate
    THEN (IF a.is_duplicate THEN -1 ELSE 1)
    ELSE IF FLess(IntentTolerance, FAbsDiff(a.intent_similarity, b.intent_similarity))
         THEN FSign(b.intent_similarity, a.intent_similarity)
         ELSE FSign(b.text_similarity, a.text_similarity)

\* Array.prototype.sort as the runtime (V8) runs it on fewer than 64 elements:
\* the run the array starts with is found, reversed when it descends, and
\* the other elements are inserted into it by binary search

RECURSIVE RunEnd(_, _, _)
\* the last index of the run that starts at 1, idx - 1 being within it
RunEnd(arr, idx, isDescending) ==
    IF idx > Len(arr) THEN Len(arr)
    ELSE LET order == compare(arr[idx], arr[idx - 1])
         IN IF (isDescending /\ order >= 0) \/ (~isDescending /\ order < 0)
            THEN idx - 1
            ELSE RunEnd(arr, idx + 1, isDescending)

Reverse(seq) == Array([i \in 1..Len(seq) |-> seq[Len(seq) + 1 - i]], Len(seq))

RECURSIVE InsertionPoint(_, _, _, _)
\* the number of elements of arr[1..right] the pivot is put behind
InsertionPoint(arr, pivot, left, right) ==
    IF left >= right THEN left
    ELSE LET mid == left + ((right - left) \div 2)
         IN IF compare(pivot, arr[mid + 1]) < 0
            THEN InsertionPoint(arr, pivot, left, mid)
            ELSE InsertionPoint(arr, pivot, mid + 1, right)

RECURSIVE BinaryInsertionSort(_, _)
\* arr[1..start-1] is the run; arr[start..] is inserted element by element
BinaryInsertionSort(arr, start) ==
    IF start > Len(arr) THEN arr
    ELSE LET pivot == arr[start]
             left == InsertionPoint(arr, pivot, 0, start - 1)
         IN BinaryInsertionSort(
                SubSeq(arr, 1, left) \o <<pivot>> \o SubSeq(arr, left + 1, start - 1)
                    \o SubSeq(arr, start + 1, Len(arr)),
                start + 1)

\* a sort that leaves the array as it is, which the ranking property tells
\* from SortResults
KeepOrder(results) == results

\* results.sort((a, b) => ...)
SortResults(results) ==
    IF Len(results) < 2 THEN results
    ELSE LET isDescending == compare(results[2], results[1]) < 0
             runLength == RunEnd(results, 3, isDescending)
             run == SubSeq(results, 1, runLength)
         IN BinaryInsertionSort(
                (IF isDescending THEN Reverse(run) ELSE run)
                    \o SubSeq(results, runLength + 1, Len(results)),
                runLength + 1)

\* results.slice(0, 5)
TopCount == 5

\* a slice that keeps the last n elements, which the aggregate flag tells
\* from Slice0
SliceEnd(seq, n) == SubSeq(seq, IF Len(seq) < n THEN 1 ELSE Len(seq) - n + 1, Len(seq))

Slice0(seq, n) == SubSeq(seq, 1, IF Len(seq) < n THEN Len(seq) ELSE n)

\* the scoring loop: one result per record, in id order
ScoreRecords(query, records) ==
    LET queryIntent == normalizeIntent(query)
        queryWords == preprocessText(query)
        recordDocuments == Array([i \in 1..Len(records) |->
                                     preprocessText(records[i].search_text)], Len(records))
        allTextDocuments == Append(recordDocuments, queryWords)
        textIdf == computeIDF(allTextDocuments)
        queryTextTFIDF == computeTFIDF(computeTermFrequency(queryWords), textIdf)
    IN Array([i \in 1..Len(records) |->
          LET record == records[i]
              recordIntent == IF Truthy(record.intent_text) THEN record.intent_text
                              ELSE normalizeIntent(record.search_text)
              intentSimilarity == computeIntentSimilarity(queryIntent, recordIntent)
              textTFIDF == computeTFIDF(computeTermFrequency(allTextDocuments[i]), textIdf)
              textSimilarity == cosineSimilarity(queryTextTFIDF, textTFIDF)
          IN [ id |-> i,
               source_file |-> record.source_file,
               level_1 |-> record.level_1,
               function_point |-> record.function_point,
               sub_function |-> record.sub_function,
               search_text |-> record.search_text,
               intent_text |-> recordIntent,
               intent_similarity |-> intentSimilarity,
               text_similarity |-> textSimilarity,
               is_duplicate |-> isDuplicate(intentSimilarity, textSimilarity) ]],
          Len(records))

\* some(r => r.is_duplicate)
SomeDuplicate(results) == \E i \in 1..Len(results) : results[i].is_duplicate

---------------------------------------------------------------------------
(* Requests and stored data the handlers are run on                        *)

\* the largest number of rows function_records is let grow to
MaxRecords == 6

\* the largest number of per-record updates that fail in one backfill run
MaxUpdateFailures == 1

\* a JavaScript value of a JSON request body: its typeof and its content
Undefined == [type |-> "undefined", value |-> <<>>]
Number(n) == [type |-> "number", value |-> <<n>>]
String(s) == [type |-> "string", value |-> s]

\* a test that takes only undefined for a missing query, which the error
\* property tells from Falsy
FalsyMissing(v) == v.type = "undefined"

\* !query
Falsy(v) ==
    \/ v.type = "undefined"
    \/ v.type = "number" /\ v.value = <<0>>
    \/ v.type = "string" /\ v.value = <<>>

\* rows written before intent_text existed: no intent_text, one label
LegacyRow(text) ==
    [source_file |-> "legacy.csv", level_1 |-> text, function_point |-> NULL,
     sub_function |-> NULL, search_text |-> text, intent_text |-> NULL]

LegacyTexts ==
    << <<25238, 38899, 25773, 25918, 28857, 36190, 35780, 35770>>,  \* 抖音播放点赞评论
       <<25238, 38899, 25773, 25918, 28857, 36190>>,                \* 抖音播放点赞
       <<25238, 38899, 25773, 25918>> >>                            \* 抖音播放

\* rows whose intent_text was written by hand
ScenarioCorpus ==
    << [source_file |-> "legacy.csv",
        \* 打开全民K歌搜索山楂树之恋
        level_1 |-> <<25171, 24320, 20840, 27665, 75, 27468, 25628, 32034, 23665,
                      26946, 26641, 20043, 24651>>,
        function_point |-> NULL, sub_function |-> NULL,
        search_text |-> <<25171, 24320, 20840, 27665, 75, 27468, 25628, 32034, 23665,
                          26946, 26641, 20043, 24651>>,
        intent_text |-> <<25171, 24320, 32, 25628, 32034>>],        \* 打开 搜索
       [source_file |-> "legacy.csv",
        level_1 |-> <<25171, 24320, 24494, 20449>>,                 \* 打开微信
        function_point |-> NULL, sub_function |-> NULL,
        search_text |-> <<25171, 24320, 24494, 20449>>,
        intent_text |-> <<25171, 24320>>] >>                        \* 打开

\* what function_records holds before the first request
InitialCorpora ==
    { <<>>,
      Array([i \in 1..Len(LegacyTexts) |-> LegacyRow(LegacyTexts[i])], Len(LegacyTexts)),
      ScenarioCorpus }

\* the rows parseCSV hands to processCSVData, after its forward fill
Row(level1, functionPoint, subFunction, queries) ==
    [level_1 |-> level1, function_point |-> functionPoint,
     sub_function |-> subFunction, queries |-> queries]

Files ==
    { [name |-> "a.csv",
       rows |-> << Row(<<24494, 20449>>, <<25171, 24320>>, <<>>,
                       << <<25628, 32034>> >>),                     \* 微信,打开,,搜索
                   Row(<<24494, 20449>>, <<25628, 32034>>, <<>>, <<>>),      \* 微信,搜索
                   Row(<<25903, 20184, 23453>>, <<25171, 24320>>, <<25628, 32034>>,
                       << <<25773, 25918, 32, 20998, 20139>> >>) >>], \* 支付宝,打开,搜索,播放 分享
      [name |-> "a.csv",
       rows |-> << Row(<<24494, 20449>>, <<25171, 24320>>, <<>>, <<>>),      \* 微信,打开
                   Row(<<25238, 38899>>, <<25171, 24320>>, <<>>, <<>>),      \* 抖音,打开
                   Row(<<25238, 38899>>, <<25628, 32034>>, <<>>, <<>>) >>],  \* 抖音,搜索
      [name |-> "b.csv",
       rows |-> << Row(<<21608, 26480, 20262>>, <<>>, <<>>, <<>>) >>] }  \* 周杰伦

\* formData.get('file') of a request without the field
NoFile == [name |-> "", rows |-> <<>>]

\* 打开全民K歌找一下山楂树之恋这首歌
ScenarioQuery ==
    String(<<25171, 24320, 20840, 27665, 75, 27468, 25214, 19968, 19979, 23665, 26946,
             26641, 20043, 24651, 36825, 39318, 27468>>)

QueryValues ==
    { Undefined, Number(42), String(<<>>),
      \* 微信 打开 搜索 播放 分享
      String(<<24494, 20449, 32, 25171, 24320, 32, 25628, 32034, 32, 25773, 25918,
               32, 20998, 20139>>),
      \* 微信 搜索
      String(<<24494, 20449, 32, 25628, 32034>>),
      \* 周杰伦
      String(<<21608, 26480, 20262>>),
      ScenarioQuery }

---------------------------------------------------------------------------
(* The edge functions                                                      *)

\* the catch block of each handler
ErrorResponse(handler, request, message) ==
    [handler |-> handler, request |-> request, status |-> 400,
     body |-> [error |-> message]]

OkResponse(handler, request, body) ==
    [handler |-> handler, request |-> request, status |-> 200, body |-> body]

\* 检索库为空，请先上传CSV文件
EmptyMessage ==
    <<26816, 32034, 24211, 20026, 31354, 65292, 35831, 20808, 19978, 20256, 67, 83,
      86, 25991, 20214>>

\* search-similar
SearchSimilar(query, fetchError) ==
    /\ response' =
        IF Falsy(query) \/ query.type # "string"
        THEN ErrorResponse("search-similar", query, "Query is required")
        ELSE IF fetchError
        THEN ErrorResponse("search-similar", query, "Failed to fetch records")
        ELSE IF Len(db) = 0
        THEN OkResponse("search-similar", query,
                        [results |-> <<>>, message |-> EmptyMessage])
        ELSE LET top5 == Slice0(SortResults(ScoreRecords(query.value, db)), TopCount)
             IN OkResponse("search-similar", query,
                           [results |-> top5,
                            totalRecords |-> Len(db),
                            queryIntent |-> normalizeIntent(query.value),
                            hasDuplicate |-> SomeDuplicate(top5)])
    /\ UNCHANGED db

\* delete().eq('source_file', filename)
DeleteFile(records, filename) ==
    LET Other(record) == record.source_file # filename
    IN SelectSeq(records, Other)

\* process-csv; the delete and the insert each succeed or return an error
ProcessCSV(file) ==
    IF file = NoFile
    THEN /\ response' = ErrorResponse("process-csv", file.name, "No file uploaded")
         /\ UNCHANGED db
    ELSE LET records == processCSVData(file.rows, file.name)
         IN \E deleteError \in BOOLEAN, insertError \in BOOLEAN :
              LET kept == IF deleteError THEN db ELSE DeleteFile(db, file.name)
              IN /\ Len(kept) + Len(records) <= MaxRecords
                 /\ IF Len(records) > 0 /\ insertError
                    THEN /\ db' = kept
                         /\ response' = ErrorResponse("process-csv", file.name,
                                                      "Failed to insert records")
                    ELSE /\ db' = kept \o records
                         /\ response' = OkResponse("process-csv", file.name,
                                                   [success |-> TRUE,
                                                    filename |-> file.name,
                                                    recordCount |-> Len(records)])

\* .or('intent_text.is.null,intent_text.eq.')
WithoutIntent == { i \in 1..Len(db) : ~Truthy(db[i].intent_text) }

\* update-intent-text; failed are the ids whose update returns an error
UpdateIntentText(fetchError, failed) ==
    IF fetchError
    THEN /\ response' = ErrorResponse("update-intent-text", <<>>,
                                      "Failed to fetch records")
         /\ UNCHANGED db
    ELSE IF WithoutIntent = {}
    THEN /\ failed = {}
         /\ response' = OkResponse("update-intent-text", <<>>,
                                   [success |-> TRUE, updated |-> 0])
         /\ UNCHANGED db
    ELSE /\ failed \subseteq WithoutIntent
         /\ db' = Array([i \in 1..Len(db) |->
                            IF i \in WithoutIntent \ failed
                            THEN [db[i] EXCEPT !.intent_text =
                                     normalizeIntentBackfill(db[i].search_text)]
                            ELSE db[i]], Len(db))
         /\ response' = OkResponse("update-intent-text", <<>>,
                                   [success |-> TRUE,
                                    updated |-> Cardinality(WithoutIntent \ failed),
                                    total |-> Cardinality(WithoutIntent)])

---------------------------------------------------------------------------
(* The system                                                              *)

\* no request served yet
NoResponse == [handler |-> "none", request |-> <<>>, status |-> 0, body |-> <<>>]

\* no normalizer called on its own
NoCall == [fn |-> "none", text |-> <<>>, labels |-> <<>>, queries |-> <<>>,
           result |-> <<>>]

Init ==
    /\ db \in InitialCorpora
    /\ response = NoResponse
    /\ call = NoCall

Search ==
    /\ \E query \in QueryValues, fetchError \in BOOLEAN : SearchSimilar(query, fetchError)
    /\ UNCHANGED call

Upload ==
    /\ \E file \in Files \cup {NoFile} : ProcessCSV(file)
    /\ UNCHANGED call

Backfill ==
    /\ \E fetchError \in BOOLEAN,
          failed \in { f \in SUBSET (1..Len(db)) : Cardinality(f) <= MaxUpdateFailures } :
            UpdateIntentText(fetchError, failed)
    /\ UNCHANGED call

Next == Search \/ Upload \/ Backfill

Spec == Init /\ [][Next]_vars

---------------------------------------------------------------------------
(* The normalizers called on their own, one call on a text of a bounded set *)

\* the longest text made of the letters of Alphabet
MaxTextLength == 4

\* a, space, ", 找 (a one-character verb key), 的 (a particle and a filler)
Alphabet == {97, 32, 34, 25214, 30340}

\* the texts of the letters of Alphabet, up to MaxTextLength long
Spelled == UNION { [1..n -> Alphabet] : n \in 0..MaxTextLength }

\* 播放《山楂树之恋》, 微信ab, 微信 抖音
Phrases ==
    { <<25773, 25918, 12298, 23665, 26946, 26641, 20043, 24651, 12299>>,
      <<24494, 20449, 97, 98>>,
      <<24494, 20449, 32, 25238, 38899>> }

\* the texts the normalizers are called on: the spelled texts, every key of
\* the two verb tables, every known application, the phrases
Texts ==
    Spelled \cup Range(Keys(ACTION_NORMALIZATION)) \cup Range(Keys(ACTION_MAP))
        \cup Range(APP_NAMES) \cup Phrases

\* the values of a hierarchy column: empty, 微信, 支付宝, 进入, a
LabelValues ==
    { <<>>, <<24494, 20449>>, <<25903, 20184, 23453>>, <<36827, 20837>>, <<97>> }

\* the query columns of a row: none, 搜索, 1抖音播放, 搜索 and 播放 分享
QueryColumns ==
    { <<>>, << <<25628, 32034>> >>, << <<49, 25238, 38899, 25773, 25918>> >>,
      << <<25628, 32034>>, <<25773, 25918, 32, 20998, 20139>> >> }

\* normalizeIntent of process-csv on a text
CallStructural ==
    /\ call = NoCall
    /\ \E text \in Texts :
        call' = [fn |-> "structural", text |-> text, labels |-> <<>>, queries |-> <<>>,
                 result |-> normalizeIntentCSV(text)]
    /\ UNCHANGED <<db, response>>

\* normalizeIntent of update-intent-text on a text
CallBackfill ==
    /\ call = NoCall
    /\ \E text \in Texts :
        call' = [fn |-> "backfill", text |-> text, labels |-> <<>>, queries |-> <<>>,
                 result |-> normalizeIntentBackfill(text)]
    /\ UNCHANGED <<db, response>>

\* normalizeIntent of search-similar on a text
CallQuery ==
    /\ call = NoCall
    /\ \E text \in Texts :
        call' = [fn |-> "query", text |-> text, labels |-> <<>>, queries |-> <<>>,
                 result |-> normalizeIntent(text)]
    /\ UNCHANGED <<db, response>>

\* extractIntent on the columns of a row
CallExtractIntent ==
    /\ call = NoCall
    /\ \E level1 \in LabelValues, functionPoint \in LabelValues,
          subFunction \in LabelValues, queries \in QueryColumns :
        call' = [fn |-> "extractIntent", text |-> <<>>,
                 labels |-> <<level1, functionPoint, subFunction>>,
                 queries |-> queries,
                 result |-> extractIntent(level1, functionPoint, subFunction, queries)]
    /\ UNCHANGED <<db, response>>

NormalizerInit ==
    /\ db = <<>>
    /\ response = NoResponse
    /\ call = NoCall

NormalizerNext == CallStructural \/ CallBackfill \/ CallQuery \/ CallExtractIntent

NormalizerSpec == NormalizerInit /\ [][NormalizerNext]_vars
---------------------------------------------------------------------------
(* What a response shows of the request it answers                         *)

\* the last request was a search
IsSearch == response.handler = "search-similar"

\* the last request was a search that reached the scoring loop
IsScored == IsSearch /\ response.status = 200 /\ "totalRecords" \in DOMAIN response.body

\* the results of every record for the query of the last search, in id order
AllScored == ScoreRecords(response.request.value, db)

\* the returned list
Returned == response.body.results

---------------------------------------------------------------------------
(* Classification                                                          *)

\* is_duplicate is the conjunction of the two threshold tests on the two
\* similarities of the same result
Classified(result) ==
    result.is_duplicate <=> (/\ FGeq(result.intent_similarity, Decimal(7, 10))
                             /\ FGeq(result.text_similarity, Decimal(3, 10)))

---------------------------------------------------------------------------
(* Ranking and truncation                                                  *)

\* the result of the record with this id is in the returned list
IsReturned(id) == \E i \in 1..Len(Returned) : Returned[i].id = id

\* C2: for a corpus of n >= 1 records the search returns exactly min(5, n)
\* results, every returned duplicate precedes every returned non-duplicate,
\* and a non-duplicate is returned only if every duplicate of the corpus is.
C2_TopFiveDuplicatesFirst ==
    IsScored =>
        /\ Len(db) >= 1
        /\ Len(Returned) = (IF Len(db) < 5 THEN Len(db) ELSE 5)
        /\ \A i \in 1..Len(Returned), j \in 1..Len(Returned) :
            (i < j /\ Returned[j].is_duplicate) => Returned[i].is_duplicate
        /\ (\E i \in 1..Len(Returned) : ~Returned[i].is_duplicate) =>
            \A k \in 1..Len(AllScored) :
                AllScored[k].is_duplicate => IsReturned(AllScored[k].id)

\* a search over more than five records whose only duplicate has the
\* highest id, returned ahead of non-duplicates
C2_Witness ==
    /\ IsScored
    /\ Len(db) > 5
    /\ \A k \in 1..Len(AllScored) : AllScored[k].is_duplicate <=> k = Len(db)
    /\ Returned[1].id = Len(db)
    /\ ~Returned[2].is_duplicate

\* C3: in the returned list, for any two results with the same is_duplicate
\* flag: if their intent similarities differ by more than 0.01 the one with
\* the higher intent similarity comes first, and if they are within 0.01
\* the one with the higher text similarity comes first -- for every pair.
C3_PairwiseOrder ==
    IsScored =>
        \A i \in 1..Len(Returned), j \in 1..Len(Returned) :
            (i < j /\ Returned[i].is_duplicate = Returned[j].is_duplicate) =>
                IF FLess(Decimal(1, 100),
                         FAbsDiff(Returned[i].intent_similarity,
                                  Returned[j].intent_similarity))
                THEN FLess(Returned[j].intent_similarity, Returned[i].intent_similarity)
                ELSE FGeq(Returned[i].text_similarity, Returned[j].text_similarity)

\* C4: hasDuplicate equals any(is_duplicate) over the returned list, which
\* equals any(is_duplicate) over all scored records of the corpus.
C4_HasDuplicateOfCorpus ==
    IsScored =>
        /\ response.body.hasDuplicate
            <=> \E i \in 1..Len(Returned) : Returned[i].is_duplicate
        /\ response.body.hasDuplicate
            <=> \E k \in 1..Len(AllScored) : AllScored[k].is_duplicate

\* a search over more than five records reports a duplicate that none of
\* the five records of lowest id is
C4_Witness ==
    /\ IsScored
    /\ Len(db) > 5
    /\ response.body.hasDuplicate
    /\ \A k \in 1..5 : ~AllScored[k].is_duplicate

---------------------------------------------------------------------------
(* The empty record set                                                    *)

\* C5: when the record set is empty, a search for any query string returns
\* an empty list together with hasDuplicate = false and totalRecords = 0,
\* all three fields being present.
C5_EmptyCorpusFields ==
    (IsSearch /\ response.status = 200 /\ Len(db) = 0) =>
        /\ {"results", "hasDuplicate", "totalRecords"} \subseteq DOMAIN response.body
        /\ response.body.results = <<>>
        /\ response.body.hasDuplicate = FALSE
        /\ response.body.totalRecords = 0

---------------------------------------------------------------------------
(* Errors                                                                  *)

\* C6 (as amended): search-similar answers with an error exactly when the
\* query is missing, is not a string or is the empty string, or when
\* fetching the records fails; every other search returns a result list.
C6_ErrorIffNoQueryOrFetchFails ==
    IsSearch =>
        LET query == response.request
            rejected == query.type # "string" \/ query.value = <<>>
        IN /\ rejected =>
                /\ response.status = 400
                /\ response.body = [error |-> "Query is required"]
           /\ ~rejected =>
                \/ /\ response.status = 400
                   /\ response.body = [error |-> "Failed to fetch records"]
                \/ /\ response.status = 200
                   /\ "results" \in DOMAIN response.body

\* the empty string was sent as the query and answered with an error
C6_Witness ==
    /\ IsSearch
    /\ response.request = String(<<>>)
    /\ response.status = 400

\* C6 (as claimed): search-similar answers with an error if and only if the
\* query is missing or not a string; every string query, the empty string
\* included, returns a result rather than an error.
C6_ErrorIffNotString ==
    IsSearch => (response.status = 400 <=> response.request.type # "string")

---------------------------------------------------------------------------
(* Similarities                                                            *)

\* the set of tokens of an intent string: lower case, split on whitespace
Tokens(intent) ==
    IF ~Truthy(intent) THEN {}
    ELSE Range(SplitWhitespace(ToLowerCase(intent))) \ {<<>>}

\* |a \cap b| / |a \cup b|, 0 when either set is empty
Jaccard(a, b) ==
    IF a = {} \/ b = {} THEN ZERO
    ELSE FDiv(FromInt(Cardinality(a \cap b)), FromInt(Cardinality(a \cup b)))

\* the query text and the record text name two different applications
AppsDiffer(queryText, recordText) ==
    /\ Truthy(extractAppName(queryText))
    /\ Truthy(extractAppName(recordText))
    /\ extractAppName(queryText) # extractAppName(recordText)

\* C7: intent similarity is the Jaccard index of the two intent token sets,
\* multiplied by 0.3 exactly when the query text and the record text each
\* name a known application and the two differ; so a query and a record
\* whose texts name two different applications are never flagged.
C7_DampedIffTextsNameDifferentApps ==
    IsScored =>
        \A k \in 1..Len(AllScored) :
            LET result == AllScored[k]
                differ == AppsDiffer(response.request.value, result.search_text)
                jaccard == Jaccard(Tokens(response.body.queryIntent),
                                   Tokens(result.intent_text))
            IN /\ result.intent_similarity =
                    (IF differ THEN FMul(jaccard, Decimal(3, 10)) ELSE jaccard)
               /\ differ => ~result.is_duplicate

---------------------------------------------------------------------------
(* The ranking scenario                                                    *)

\* the scenario's query was searched for in the scenario's two records
InScenario == IsScored /\ response.request = ScenarioQuery /\ db = ScenarioCorpus

\* C9 (as amended): in the scenario the query's intent is 全民K歌 打开 搜索,
\* R1 is ranked above R2 with the higher intent similarity, and R1 is not
\* flagged: its intent similarity is below 0.7 and its text similarity is 0.
C9_ScenarioRanksR1Unflagged ==
    InScenario =>
        /\ response.body.queryIntent =
            <<20840, 27665, 75, 27468, 32, 25171, 24320, 32, 25628, 32034>>
        /\ Tokens(response.body.queryIntent) =
            { <<20840, 27665, 107, 27468>>, <<25171, 24320>>, <<25628, 32034>> }
        /\ Len(Returned) = 2
        /\ Returned[1].id = 1
        /\ Returned[2].id = 2
        /\ FLess(Returned[2].intent_similarity, Returned[1].intent_similarity)
        /\ FLess(Returned[1].intent_similarity, Decimal(7, 10))
        /\ Returned[1].text_similarity = ZERO
        /\ ~Returned[1].is_duplicate

\* the scenario has been run
C9_Witness == InScenario /\ Returned[1].search_text = ScenarioCorpus[1].search_text

\* C9 (as claimed): in the scenario the query's intent token set is
\* {打开, 搜索}, R1 is ranked above R2, and R1 is flagged whenever its text
\* similarity is at least 0.3.
C9_ScenarioAsClaimed ==
    InScenario =>
        /\ Tokens(response.body.queryIntent) = { <<25171, 24320>>, <<25628, 32034>> }
        /\ Returned[1].id = 1
        /\ Returned[2].id = 2
        /\ FGeq(Returned[1].text_similarity, Decimal(3, 10)) => Returned[1].is_duplicate

---------------------------------------------------------------------------
(* Normalization variants                                                  *)

\* the record's intent string was computed by the search with normalizeIntent
OnTheFly(result) ==
    /\ ~Truthy(db[result.id].intent_text)
    /\ result.intent_text = normalizeIntent(result.search_text)

\* the record's intent string is the stored one, written by process-csv or
\* update-intent-text
Cached(result) ==
    /\ Truthy(db[result.id].intent_text)
    /\ result.intent_text = db[result.id].intent_text

\* C10: within one search the intent strings of all scored records come
\* from one and the same normalization variant, whatever mixture of cached
\* and missing intent_text the record set contains.
C10_OneVariantPerSearch ==
    IsScored =>
        \/ \A k \in 1..Len(AllScored) : OnTheFly(AllScored[k])
        \/ \A k \in 1..Len(AllScored) : Cached(AllScored[k])

---------------------------------------------------------------------------
(* The stored intent_text                                                  *)

\* the records a step writes: new rows, and rows whose intent_text it set
Written(before, after) ==
    { i \in 1..Len(after) : ~Contains(before, after[i]) }

\* C11: every stored record whose intent_text is present carries the
\* normalizer's output for that record: what process-csv writes at ingestion
\* and what update-intent-text writes at backfill are the same value,
\* normalizeIntent of the record's search_text, and nothing else is stored.
C11_StoredIntentIsNormalized ==
    [][\A i \in Written(db, db') :
          Truthy(db'[i].intent_text) =>
              db'[i].intent_text = normalizeIntentBackfill(db'[i].search_text)]_vars

---------------------------------------------------------------------------
(* The skeletons of the normalizers                                        *)

\* the last call was of one of the structural normalizers
IsStructural == call.fn \in {"structural", "backfill", "extractIntent"}

\* the labels of the last extractIntent call that are set, each once, joined
LabelPrefix ==
    Join(Dedupe(Labels(call.labels[1], call.labels[2], call.labels[3])), SPACE)

\* C13: when hierarchy labels are supplied to structural normalize, the
\* skeleton starts with those labels verbatim, in hierarchy order, ahead of
\* all free-text tokens, whatever the labels contain: slot redaction, verb
\* canonicalization and the residual-token filter do not touch them.
C13_LabelsVerbatimFirst ==
    (call.fn = "extractIntent" /\ Len(LabelPrefix) > 0) =>
        /\ Len(call.result) >= Len(LabelPrefix)
        /\ SubSeq(call.result, 1, Len(LabelPrefix)) = LabelPrefix
        /\ Len(call.result) > Len(LabelPrefix) =>
                call.result[Len(LabelPrefix) + 1] \in Whitespace

\* C14: for every input text, no token of the skeleton of structural
\* normalize consists of or contains the placeholder <QUERY>: every
\* placeholder of slot redaction is discarded, adjacent to other characters
\* or not.
C14_NoPlaceholderInSkeleton ==
    IsStructural => ~Includes(call.result, PLACEHOLDER)

\* the text is a key of the verb table
IsKey(table, text) == \E k \in 1..Len(table) : table[k][1] = text

\* the canonical action the verb table maps the key to
CanonicalOf(table, key) == table[CHOOSE k \in 1..Len(table) : table[k][1] = key][2]

\* C15: for every key k of the verb table, normalizing the text k alone,
\* under structural normalize and under query normalize, yields a skeleton
\* that contains the canonical action the table maps k to.
C15_KeyYieldsCanonicalAction ==
    /\ (call.fn \in {"structural", "backfill"} /\ IsKey(ACTION_NORMALIZATION, call.text)) =>
            CanonicalOf(ACTION_NORMALIZATION, call.text) \in Tokens(call.result)
    /\ (call.fn = "query" /\ IsKey(ACTION_MAP, call.text)) =>
            CanonicalOf(ACTION_MAP, call.text) \in Tokens(call.result)

\* C16: the whitespace-separated tokens of every skeleton, of structural
\* normalize and of query normalize on either of its paths, are pairwise
\* distinct.
C16_SkeletonDuplicateFree ==
    call.fn # "none" =>
        LET tokens == SplitWhitespace(call.result)
        IN \A i \in 1..Len(tokens), j \in 1..Len(tokens) :
                i # j => tokens[i] # tokens[j]

\* the entry of the known-entity list declared first among those the text
\* contains
EarliestDeclared(text) ==
    APP_NAMES[CHOOSE i \in 1..Len(APP_NAMES) :
                /\ Includes(text, APP_NAMES[i])
                /\ \A j \in 1..(i - 1) : ~Includes(text, APP_NAMES[j])]

\* the known-entity names among the tokens of the skeleton
EntitiesOf(skeleton) == Range(APP_NAMES) \cap Range(SplitWhitespace(skeleton))

\* C17: query normalize puts at most one known-entity name in the skeleton,
\* the earliest-declared entry of the list that occurs in the text, and every
\* known-entity name given as the whole text resolves to itself.
C17_EntityResolvesToItself ==
    call.fn = "query" =>
        /\ Cardinality(EntitiesOf(call.result)) <= 1
        /\ (\E i \in 1..Len(APP_NAMES) : Includes(call.text, APP_NAMES[i])) =>
                EntitiesOf(call.result) = {EarliestDeclared(call.text)}
        /\ Contains(APP_NAMES, call.text) => EntitiesOf(call.result) = {call.text}

---------------------------------------------------------------------------
(* Degenerate searches                                                     *)

\* the last request was a search for a string that normalizes to the empty
\* skeleton, and the records were fetched
IsEmptyIntentSearch ==
    /\ IsSearch
    /\ response.request.type = "string"
    /\ normalizeIntent(response.request.value) = <<>>
    /\ ~(response.status = 400 /\ response.body.error = "Failed to fetch records")

\* the search was not rejected, every record was scored, with intent
\* similarity 0 and no duplicate flag
ScoredWithoutIntent ==
    /\ response.status = 200
    /\ Len(db) > 0 =>
        /\ IsScored
        /\ response.body.queryIntent = <<>>
        /\ Len(AllScored) = Len(db)
        /\ \A i \in 1..Len(AllScored) :
            /\ AllScored[i].intent_similarity = ZERO
            /\ ~AllScored[i].is_duplicate
        /\ \A i \in 1..Len(Returned) :
            /\ Contains(AllScored, Returned[i])
            /\ Returned[i].intent_similarity = ZERO
            /\ ~Returned[i].is_duplicate
        /\ ~response.body.hasDuplicate

\* C12 (as amended): a non-empty query string that normalizes to an empty
\* intent skeleton is not rejected: every record is scored lexically,
\* intent_similarity is 0 for every record, no record is flagged is_duplicate
\* and has_duplicate is false.
C12_EmptyIntentScoresZero ==
    (IsEmptyIntentSearch /\ response.request.value # <<>>) => ScoredWithoutIntent

\* C12 (as claimed): every query that normalizes to an empty intent skeleton
\* is not rejected and is scored so.
C12_EmptyIntentNeverRejected == IsEmptyIntentSearch => ScoredWithoutIntent

\* a search with an empty intent skeleton returned a record whose text is
\* similar to the query's and a record whose text is not
C12_Witness ==
    /\ IsEmptyIntentSearch
    /\ IsScored
    /\ \E i \in 1..Len(Returned) : FGeq(Returned[i].text_similarity, TextThreshold)
    /\ \E i \in 1..Len(Returned) : Returned[i].text_similarity = ZERO

\* the documents of the last search: the records' texts, then the query's
SearchDocuments ==
    Array([i \in 1..Len(db) |-> preprocessText(db[i].search_text)], Len(db))
        \o <<preprocessText(response.request.value)>>

\* C18: a term that occurs in every document of a search has weight 0, so
\* with a corpus of exactly one record the lexical similarity is 0 for every
\* query, even one identical to the record's text, and that record is never
\* flagged is_duplicate.
C18_SingleRecordScoresNoText ==
    IsScored =>
        /\ \A k \in 1..Len(computeIDF(SearchDocuments)) :
            (\A d \in 1..Len(SearchDocuments) :
                Contains(SearchDocuments[d], computeIDF(SearchDocuments)[k][1]))
                    => computeIDF(SearchDocuments)[k][2] = ZERO
        /\ Len(db) = 1 =>
            /\ AllScored[1].text_similarity = ZERO
            /\ ~AllScored[1].is_duplicate
            /\ Len(Returned) = 1
            /\ Returned[1].text_similarity = ZERO
            /\ ~Returned[1].is_duplicate
            /\ ~response.body.hasDuplicate

\* a search in a corpus of one record for a query whose words are the words
\* of the record's text
C18_Witness ==
    /\ IsScored
    /\ Len(db) = 1
    /\ preprocessText(response.request.value) # <<>>
    /\ preprocessText(response.request.value) = preprocessText(db[1].search_text)
    /\ Returned[1].text_similarity = ZERO

---------------------------------------------------------------------------
(* Backfill and upload                                                     *)

\* the step is a run of update-intent-text in which every update succeeded
BackfilledAll ==
    /\ response'.handler = "update-intent-text"
    /\ response'.status = 200
    /\ "total" \in DOMAIN response'.body => response'.body.updated = response'.body.total

\* C19: after one run of update-intent-text in which every update succeeds,
\* no record has a null or empty intent_text, so the next run finds nothing
\* to update.
C19_BackfillConverges ==
    [][BackfilledAll => { i \in 1..Len(db') : ~Truthy(db'[i].intent_text) } = {}]_vars

\* the rows of a file
RowsOf(records, filename) ==
    LET Of(record) == record.source_file = filename
    IN SelectSeq(records, Of)

\* C20: when a process-csv request for a file named F finishes, the rows of F
\* are exactly the rows extracted from the upload after a success response
\* and exactly the rows of before after an error response.
C20_UploadAllOrNothing ==
    [][(response'.handler = "process-csv" /\ response'.request # NoFile.name) =>
          IF response'.status = 200
          THEN \E file \in Files :
                /\ file.name = response'.request
                /\ RowsOf(db', file.name) = processCSVData(file.rows, file.name)
          ELSE RowsOf(db', response'.request) = RowsOf(db, response'.request)]_vars
=============================================================================
